---- MODULE Spec2Model ----
(***************************************************************************)
(* LangViz-studio: the trace store (Graph, Step, Edge tables) and the HTTP *)
(* handlers over it: graph/start, graph/ingest, graph/load, graph/last and *)
(* graphs/list.  Every `await prisma...` of a handler is one atomic store  *)
(* operation; handlers of different requests interleave between them.      *)
(* The viewer page (src/app/graph/page.tsx) polls graph/load and projects  *)
(* each response into the nodes, the edges and the drawer it shows.        *)
(***************************************************************************)
EXTENDS Integers, Sequences, FiniteSets, TLC

VARIABLES
    graphs,   \* Graph table: rows [id, name, createdAt] in insertion order
    steps,    \* Step table: rows in autoincrement-id order
    edges,    \* Edge table: rows in autoincrement-id order
    clock,    \* the last reading of now() (milliseconds)
    nuuid,    \* how many ids uuid() has generated
    req,      \* per client: the request being handled, its position, its response
    alone,    \* history: per client, no other ingestion of its graph ran during its own
    seen,     \* history: per graph, what the last ingestions and loads produced
    held,     \* history: per client, what its request's graph held when the request arrived
    page      \* the viewer page: the state of GraphPage and of its Drawer

vars == <<graphs, steps, edges, clock, nuuid, req, alone, seen, held, page>>

---------------------------------------------------------------------------
(* JSON values as the handlers receive them.  JUndef is a field that is    *)
(* absent from the request body (JavaScript undefined).                    *)

JUndef == [t |-> "undefined"]
JNull == [t |-> "null"]
JBool(b) == [t |-> "boolean", b |-> b]
JNum(n) == [t |-> "number", n |-> n]
JStr(s) == [t |-> "string", s |-> s]
\* an object: its members <<key, value>> in key insertion order
JObj(m) == [t |-> "object", m |-> m]
JArr(a) == [t |-> "array", a |-> a]

\* JavaScript truthiness: undefined, null, false, 0 and "" are falsy.
Truthy(v) ==
    CASE v.t = "undefined" -> FALSE
      [] v.t = "null" -> FALSE
      [] v.t = "boolean" -> v.b
      [] v.t = "number" -> v.n # 0
      [] v.t = "string" -> v.s # ""
      [] OTHER -> TRUE

\* JavaScript `a || b`
OrElse(a, b) == IF Truthy(a) THEN a ELSE b

RECURSIVE JSONstringify(_)
RECURSIVE StringifyMembers(_)

\* the text of the members of an object, comma separated
StringifyMembers(m) ==
    IF m = <<>> THEN ""
    ELSE LET one == "\"" \o m[1][1] \o "\":" \o JSONstringify(m[1][2])
         IN IF Len(m) = 1 THEN one ELSE one \o "," \o StringifyMembers(Tail(m))

\* JSON.stringify of a value that is not undefined
JSONstringify(v) ==
    CASE v.t = "null" -> "null"
      [] v.t = "boolean" -> IF v.b THEN "true" ELSE "false"
      [] v.t = "number" -> ToString(v.n)
      [] v.t = "string" -> "\"" \o v.s \o "\""
      [] v.t = "object" -> "{" \o StringifyMembers(v.m) \o "}"

\* the payload values requests carry (and JSON.parse can yield)
JsonValues ==
    { JNull, JBool(FALSE), JBool(TRUE), JNum(0), JNum(1), JStr(""), JStr("hi"),
      JObj(<<>>), JObj(<< <<"msg", JStr("hi")>> >>) }

\* whether JSON.parse accepts the text (it throws a SyntaxError otherwise)
Parses(text) == \E v \in JsonValues : JSONstringify(v) = text

\* JSON.parse: the value whose text this is
JSONparse(text) == CHOOSE v \in JsonValues : JSONstringify(v) = text

---------------------------------------------------------------------------
(* The store.                                                              *)

\* mutant: no foreign key from Step and Edge to Graph
GraphUnchecked(id) == TRUE

\* the Graph row with this id exists (what the foreign keys of Step and Edge need)
GraphExists(id) == \E k \in 1..Len(graphs) : graphs[k].id = id

\* findMany({ where: { graphId } }): the rows of one graph, in id order
StepsOf(g) == SelectSeq(steps, LAMBDA row : row.graphId = g)
EdgesOf(g) == SelectSeq(edges, LAMBDA row : row.graphId = g)

\* mutant: deleteMany without its where clause
WithoutAny(table, g) == <<>>

\* deleteMany({ where: { graphId } }): the table without the rows of one graph
WithoutGraph(table, g) == SelectSeq(table, LAMBDA row : row.graphId # g)

---------------------------------------------------------------------------
(* Requests.  A client slot holds the request being handled: the endpoint  *)
(* (op), the handler's position (pc), the parsed body, the loop counters   *)
(* and the rows a query returned, and, once pc = "done", the response.     *)

Clients == {"c1", "c2"}

NoResp == [status |-> 0]
Idle == [op |-> "idle", pc |-> "idle", body |-> JUndef, i |-> 0, j |-> 0,
         rows |-> <<>>, resp |-> NoResp]

\* the handler starts on a parsed request
Received(op, pc, body) == [Idle EXCEPT !.op = op, !.pc = pc, !.body = body]

\* return NextResponse.json(json, { status })
Respond(s, status, json) ==
    [s EXCEPT !.pc = "done", !.resp = [status |-> status, json |-> json]]

---------------------------------------------------------------------------
(* POST graph/ingest                                                       *)

RECURSIVE Flatten(_)
\* the (nodeName, call) pairs in the order of the two nested loops
Flatten(m) ==
    IF m = <<>> THEN <<>>
    ELSE [k \in 1..Len(m[1][2].a) |-> [nodeName |-> m[1][1], call |-> m[1][2].a[k]]]
         \o Flatten(Tail(m))

\* const nodesObj = body.nodes || {}
Calls(body) == Flatten(OrElse(body.nodes, JObj(<<>>)).m)

\* const edgesArr = body.edges || []
EdgeList(body) == OrElse(body.edges, JArr(<<>>)).a

\* the Step row prisma.step.create is given for one call
StepRow(g, nodeName, call) ==
    [graphId |-> g, nodeName |-> nodeName, stepIndex |-> call.stepIndex.n,
     inputJson |-> JSONstringify(OrElse(call.input, JObj(<<>>))),
     outputJson |-> JSONstringify(OrElse(call.output, JObj(<<>>)))]

\* the Edge row prisma.edge.create is given for one edge entry; a
\* conditionKey that is undefined or null is stored as NULL
EdgeRow(g, ed) ==
    [graphId |-> g, sourceNode |-> ed.source.s, targetNode |-> ed.target.s,
     conditionKey |-> IF ed.conditionKey.t = "string" THEN ed.conditionKey ELSE JNull,
     usedCount |-> OrElse(ed.used_count, JNum(0)).n]

\* the client's type check of a Step: stepIndex Int is required
StepValid(call) == call.stepIndex.t = "number"

\* the client's type check of an Edge
EdgeValid(ed) ==
    /\ ed.source.t = "string"
    /\ ed.target.t = "string"
    /\ ed.conditionKey.t \in {"undefined", "null", "string"}
    /\ OrElse(ed.used_count, JNum(0)).t = "number"

\* the catch block: { error: "Failed" }, status 500
IngestFailed(s) == Respond(s, 500, "Failed")

\* where the handler goes after a store operation: the next step to create,
\* then the next edge, then return { status: "ok" }
IngestAdvance(s) ==
    IF s.i < Len(Calls(s.body)) THEN [s EXCEPT !.pc = "createStep"]
    ELSE IF s.j < Len(EdgeList(s.body)) THEN [s EXCEPT !.pc = "createEdge"]
    ELSE Respond(s, 200, "ok")

\* mutant: the graphId is not checked before the deletes
IngestReceiveUnchecked(c, body) ==
    /\ req[c] = Idle
    /\ req' = [req EXCEPT ![c] = Received("ingest", "deleteSteps", body)]
    /\ UNCHANGED <<graphs, steps, edges, clock, nuuid>>

\* the request arrives: if (!graphId) throw, before any store operation
IngestReceive(c, body) ==
    /\ req[c] = Idle
    /\ req' = [req EXCEPT ![c] =
                 IF Truthy(body.graphId)
                 THEN Received("ingest", "deleteSteps", body)
                 ELSE IngestFailed(Received("ingest", "deleteSteps", body))]
    /\ UNCHANGED <<graphs, steps, edges, clock, nuuid>>

\* mutant: the Step rows are not deleted before the new ones are inserted
IngestKeepSteps(c) ==
    /\ req[c].op = "ingest" /\ req[c].pc = "deleteSteps"
    /\ steps' = steps
    /\ req' = [req EXCEPT ![c].pc = "deleteEdges"]
    /\ UNCHANGED <<graphs, edges, clock, nuuid>>

\* await prisma.step.deleteMany({ where: { graphId } })
IngestDeleteSteps(c) ==
    /\ req[c].op = "ingest" /\ req[c].pc = "deleteSteps"
    /\ steps' = WithoutGraph(steps, req[c].body.graphId.s)
    /\ req' = [req EXCEPT ![c].pc = "deleteEdges"]
    /\ UNCHANGED <<graphs, edges, clock, nuuid>>

\* mutant: the Edge rows are not deleted before the new ones are inserted
IngestKeepEdges(c) ==
    /\ req[c].op = "ingest" /\ req[c].pc = "deleteEdges"
    /\ edges' = edges
    /\ req' = [req EXCEPT ![c] = IngestAdvance(req[c])]
    /\ UNCHANGED <<graphs, steps, clock, nuuid>>

\* await prisma.edge.deleteMany({ where: { graphId } })
IngestDeleteEdges(c) ==
    /\ req[c].op = "ingest" /\ req[c].pc = "deleteEdges"
    /\ edges' = WithoutGraph(edges, req[c].body.graphId.s)
    /\ req' = [req EXCEPT ![c] = IngestAdvance(req[c])]
    /\ UNCHANGED <<graphs, steps, clock, nuuid>>

\* await prisma.step.create(...) for the next call; it throws on a row the
\* client rejects and on a graphId without a Graph row (foreign key)
IngestCreateStep(c) ==
    /\ req[c].op = "ingest" /\ req[c].pc = "createStep"
    /\ LET s == req[c]
           g == s.body.graphId.s
           e == Calls(s.body)[s.i + 1]
       IN IF StepValid(e.call) /\ GraphExists(g)
          THEN /\ steps' = Append(steps, StepRow(g, e.nodeName, e.call))
               /\ req' = [req EXCEPT ![c] = IngestAdvance([s EXCEPT !.i = s.i + 1])]
          ELSE /\ steps' = steps
               /\ req' = [req EXCEPT ![c] = IngestFailed(s)]
    /\ UNCHANGED <<graphs, edges, clock, nuuid>>

\* await prisma.edge.create(...) for the next edge entry
IngestCreateEdge(c) ==
    /\ req[c].op = "ingest" /\ req[c].pc = "createEdge"
    /\ LET s == req[c]
           g == s.body.graphId.s
           ed == EdgeList(s.body)[s.j + 1]
       IN IF EdgeValid(ed) /\ GraphExists(g)
          THEN /\ edges' = Append(edges, EdgeRow(g, ed))
               /\ req' = [req EXCEPT ![c] = IngestAdvance([s EXCEPT !.j = s.j + 1])]
          ELSE /\ edges' = edges
               /\ req' = [req EXCEPT ![c] = IngestFailed(s)]
    /\ UNCHANGED <<graphs, steps, clock, nuuid>>

---------------------------------------------------------------------------
(* GET graph/load?graphId=...                                              *)

\* JSON.parse(text || "{}")
ParseOrEmpty(text) == JSONparse(IF text = "" THEN "{}" ELSE text)

\* one entry of a node's call list
NodeCall(row) ==
    [stepIndex |-> row.stepIndex,
     input |-> ParseOrEmpty(row.inputJson),
     output |-> ParseOrEmpty(row.outputJson)]

\* nodes[s.nodeName].push(call), creating the key on its first step; the
\* object is the sequence of its <<nodeName, calls>> members in key order
PushCall(nodes, name, call) ==
    IF \E k \in 1..Len(nodes) : nodes[k][1] = name
    THEN [k \in 1..Len(nodes) |->
            IF nodes[k][1] = name THEN <<name, Append(nodes[k][2], call)>> ELSE nodes[k]]
    ELSE Append(nodes, <<name, <<call>>>>)

RECURSIVE GroupSteps(_, _)
\* for (const s of steps) { ... }
GroupSteps(rows, nodes) ==
    IF rows = <<>> THEN nodes
    ELSE GroupSteps(Tail(rows), PushCall(nodes, rows[1].nodeName, NodeCall(rows[1])))

\* edges.map(...): conditionKey: e.conditionKey || undefined; an undefined
\* field is left out of the response text
EdgeOut(row) ==
    [source |-> row.sourceNode, target |-> row.targetNode,
     conditionKey |-> OrElse(row.conditionKey, JUndef),
     used_count |-> row.usedCount]

EdgesOut(rows) == [k \in 1..Len(rows) |-> EdgeOut(rows[k])]

\* the request arrives: a missing graphId is answered 400 at once
LoadReceive(c, query) ==
    /\ req[c] = Idle
    /\ req' = [req EXCEPT ![c] =
                 IF Truthy(query.graphId)
                 THEN Received("load", "findSteps", query)
                 ELSE Respond(Received("load", "findSteps", query), 400, "graphId missing")]
    /\ UNCHANGED <<graphs, steps, edges, clock, nuuid>>

\* const steps = await prisma.step.findMany({ where: { graphId } })
LoadFindSteps(c) ==
    /\ req[c].op = "load" /\ req[c].pc = "findSteps"
    /\ req' = [req EXCEPT ![c].pc = "findEdges",
                          ![c].rows = StepsOf(req[c].body.graphId.s)]
    /\ UNCHANGED <<graphs, steps, edges, clock, nuuid>>

\* const edges = await prisma.edge.findMany(...), then the response is built
LoadFindEdges(c) ==
    /\ req[c].op = "load" /\ req[c].pc = "findEdges"
    /\ LET s == req[c]
           parse == \A k \in 1..Len(s.rows) :
                       /\ Parses(IF s.rows[k].inputJson = "" THEN "{}" ELSE s.rows[k].inputJson)
                       /\ Parses(IF s.rows[k].outputJson = "" THEN "{}" ELSE s.rows[k].outputJson)
       IN req' = [req EXCEPT ![c] =
                    IF parse
                    THEN Respond(s, 200, [nodes |-> GroupSteps(s.rows, <<>>),
                                          edges |-> EdgesOut(EdgesOf(s.body.graphId.s))])
                    ELSE Respond(s, 500, "Failed")]
    /\ UNCHANGED <<graphs, steps, edges, clock, nuuid>>

---------------------------------------------------------------------------
(* POST graph/start                                                        *)

\* how many ids uuid() may generate in one behaviour
MaxGenerated == 1

\* the id @default(uuid()) fills in: fresh, unlike every id in use
GeneratedId(n) == "uuid-" \o ToString(n)

\* create requests in flight that carry no graphId
PendingGenerated ==
    Cardinality({c \in Clients : /\ req[c].op = "start" /\ req[c].pc = "create"
                                 /\ req[c].body.graphId = JUndef})

\* the request arrives; nothing is checked before the store operation
StartReceive(c, body) ==
    /\ req[c] = Idle
    /\ body.graphId = JUndef => nuuid + PendingGenerated < MaxGenerated
    /\ req' = [req EXCEPT ![c] = Received("start", "create", body)]
    /\ UNCHANGED <<graphs, steps, edges, clock, nuuid>>

\* const name = body.name || "Untitled"
GraphName(body) == OrElse(body.name, JStr("Untitled"))

\* await prisma.graph.create({ data: { id: graphId, name } }): an undefined
\* id takes @default(uuid()), createdAt takes @default(now()); null or a
\* non-string id or name, and an id already in use, make create throw
StartCreate(c) ==
    /\ req[c].op = "start" /\ req[c].pc = "create"
    /\ LET s == req[c]
           gid == s.body.graphId
           id == IF gid = JUndef THEN GeneratedId(nuuid + 1) ELSE gid.s
       IN IF /\ gid.t \in {"undefined", "string"}
             /\ GraphName(s.body).t = "string"
             /\ ~GraphExists(id)
          THEN \E t \in {clock, clock + 1} :
                 /\ clock' = t
                 /\ graphs' = Append(graphs, [id |-> id, name |-> GraphName(s.body).s,
                                              createdAt |-> t])
                 /\ nuuid' = IF gid = JUndef THEN nuuid + 1 ELSE nuuid
                 /\ req' = [req EXCEPT ![c] = Respond(s, 200, [graphId |-> JStr(id)])]
          ELSE /\ UNCHANGED <<graphs, clock, nuuid>>
               /\ req' = [req EXCEPT ![c] = Respond(s, 500, "Failed to create graph")]
    /\ UNCHANGED <<steps, edges>>

---------------------------------------------------------------------------
(* GET graph/last and GET graphs/list                                      *)

\* orderBy: { createdAt: "desc" }: the orders of the rows the store may
\* return; rows of equal createdAt come in any order
OrdersDesc(rows) ==
    { p \in [1..Len(rows) -> 1..Len(rows)] :
        /\ \A a, b \in 1..Len(rows) : a # b => p[a] # p[b]
        /\ \A a \in 1..Len(rows) - 1 : rows[p[a]].createdAt >= rows[p[a + 1]].createdAt }

LastReceive(c) ==
    /\ req[c] = Idle
    /\ req' = [req EXCEPT ![c] = Received("last", "findFirst", JUndef)]
    /\ UNCHANGED <<graphs, steps, edges, clock, nuuid>>

\* const latest = await prisma.graph.findFirst({ orderBy: { createdAt: "desc" } })
LastFindFirst(c) ==
    /\ req[c].op = "last" /\ req[c].pc = "findFirst"
    /\ \E p \in OrdersDesc(graphs) :
         req' = [req EXCEPT ![c] =
                   IF graphs = <<>>
                   THEN Respond(req[c], 200, [graphId |-> JNull])
                   ELSE Respond(req[c], 200, [graphId |-> JStr(graphs[p[1]].id)])]
    /\ UNCHANGED <<graphs, steps, edges, clock, nuuid>>

ListReceive(c) ==
    /\ req[c] = Idle
    /\ req' = [req EXCEPT ![c] = Received("list", "findMany", JUndef)]
    /\ UNCHANGED <<graphs, steps, edges, clock, nuuid>>

\* const graphs = await prisma.graph.findMany({ orderBy: { createdAt: "desc" } })
ListFindMany(c) ==
    /\ req[c].op = "list" /\ req[c].pc = "findMany"
    /\ \E p \in OrdersDesc(graphs) :
         req' = [req EXCEPT ![c] =
                   Respond(req[c], 200, [k \in 1..Len(graphs) |-> graphs[p[k]]])]
    /\ UNCHANGED <<graphs, steps, edges, clock, nuuid>>

\* the response has been sent; the client may send its next request
Reply(c) ==
    /\ req[c].pc = "done"
    /\ req' = [req EXCEPT ![c] = Idle]
    /\ UNCHANGED <<graphs, steps, edges, clock, nuuid>>

---------------------------------------------------------------------------
(* Request inputs.                                                         *)

Call(stepIndex, input, output) ==
    [stepIndex |-> stepIndex, input |-> input, output |-> output]

EdgeEntry(source, target, conditionKey, used_count) ==
    [source |-> source, target |-> target, conditionKey |-> conditionKey,
     used_count |-> used_count]

Snapshot(nodes, edgeList) == [nodes |-> nodes, edges |-> edgeList]

\* one step on "start", one edge without conditionKey
SnapA ==
    Snapshot(
        JObj(<< <<"start", JArr(<< Call(JNum(0), JObj(<<>>), JObj(<< <<"msg", JStr("hi")>> >>)) >>)>> >>),
        JArr(<< EdgeEntry(JStr("start"), JStr("end"), JUndef, JNum(1)) >>))

\* calls submitted out of stepIndex order; conditionKey "end" and ""
SnapB ==
    Snapshot(
        JObj(<< <<"agent", JArr(<< Call(JNum(2), JStr(""), JStr("hi")),
                                   Call(JNum(1), JNum(1), JBool(TRUE)) >>)>> >>),
        JArr(<< EdgeEntry(JStr("agent"), JStr("end"), JStr("end"), JUndef),
                EdgeEntry(JStr("agent"), JStr("agent"), JStr(""), JNum(2)) >>))

\* two nodes, payloads missing, null, 0 and false; no edges field
SnapC ==
    Snapshot(
        JObj(<< <<"start", JArr(<< Call(JNum(0), JUndef, JNull) >>)>>,
                <<"tool", JArr(<< Call(JNum(1), JNum(0), JBool(FALSE)) >>)>> >>),
        JUndef)

\* no nodes field; one edge with a null conditionKey
SnapD ==
    Snapshot(JUndef, JArr(<< EdgeEntry(JStr("tool"), JStr("end"), JNull, JNum(0)) >>))

\* empty nodes and empty edges
SnapEmpty == Snapshot(JObj(<<>>), JArr(<<>>))

\* a step, then a call without stepIndex, which prisma.step.create refuses
SnapE ==
    Snapshot(
        JObj(<< <<"start", JArr(<< Call(JNum(0), JObj(<<>>), JObj(<<>>)) >>)>>,
                <<"tool", JArr(<< Call(JUndef, JNum(1), JNum(2)) >>)>> >>),
        JArr(<< EdgeEntry(JStr("start"), JStr("tool"), JUndef, JNum(1)) >>))

\* no step, and an edge without source, which prisma.edge.create refuses
SnapF ==
    Snapshot(JObj(<<>>), JArr(<< EdgeEntry(JUndef, JStr("end"), JUndef, JNum(1)) >>))

\* "start" with two steps and "end" with one; an edge with conditionKey "end"
SnapG ==
    Snapshot(
        JObj(<< <<"start", JArr(<< Call(JNum(0), JObj(<<>>), JStr("hi")),
                                   Call(JNum(2), JStr("hi"), JNum(1)) >>)>>,
                <<"end", JArr(<< Call(JNum(3), JNum(1), JObj(<<>>)) >>)>> >>),
        JArr(<< EdgeEntry(JStr("start"), JStr("end"), JStr("end"), JNum(2)) >>))

Snapshots == {SnapA, SnapB, SnapC, SnapD, SnapEmpty, SnapE, SnapF}

\* the graph ids callers use
GraphIds == {"g1", "g2"}

IngestBody(graphId, snap) ==
    [graphId |-> graphId, nodes |-> snap.nodes, edges |-> snap.edges]

StartBody(graphId, name) == [graphId |-> graphId, name |-> name]

LoadQuery(graphId) == [graphId |-> graphId]

---------------------------------------------------------------------------
(* History variables: they record what happened and no handler reads them. *)

\* the step completes client c's request
Completed(c) == req[c].pc # "done" /\ req'[c].pc = "done"

\* the step starts client c's request
Arrived(c) == req[c] = Idle /\ req'[c] # Idle

\* client d is in the middle of an ingestion for graph g
Writing(d, g) ==
    /\ req[d].op = "ingest" /\ req[d].pc # "done"
    /\ req[d].body.graphId.s = g

\* alone[c] turns false when an ingestion of the same graph overlaps c's
AloneNext(c) ==
    IF req'[c] = Idle THEN TRUE
    ELSE IF Arrived(c) /\ req'[c].op = "ingest" /\ req'[c].pc # "done"
    THEN ~\E d \in Clients \ {c} : Writing(d, req'[c].body.graphId.s)
    ELSE IF /\ req[c].op = "ingest" /\ req[c].pc # "done"
            /\ \E d \in Clients \ {c} :
                 /\ Arrived(d) /\ req'[d].op = "ingest" /\ req'[d].pc # "done"
                 /\ req'[d].body.graphId.s = req[c].body.graphId.s
    THEN FALSE
    ELSE alone[c]

\* per graph: body, the snapshot of the last successful ingestion; prev, the
\* different snapshot ingested before it; ingests, how many times in a row
\* body was ingested (1, or 2 for more); rows1, the rows after the first of
\* them; load1 and load2, the last Load response after the first and after a
\* later one
Fresh ==
    [body |-> JUndef, prev |-> JUndef, ingests |-> 0, rows1 |-> <<>>,
     load1 |-> NoResp, load2 |-> NoResp]

\* client c's request is for graph g
About(s, g) ==
    /\ s.op \in {"ingest", "load"}
    /\ Truthy(s.body.graphId)
    /\ s.body.graphId.s = g

SeenNext(g) ==
    IF \E c \in Clients : Completed(c) /\ About(req'[c], g)
    THEN LET c == CHOOSE c \in Clients : Completed(c) /\ About(req'[c], g)
             s == req'[c]
             h == seen[g]
         IN CASE s.op = "ingest" /\ s.resp.status = 200 /\ h.body = s.body ->
                   [h EXCEPT !.ingests = 2]
              [] s.op = "ingest" /\ s.resp.status = 200 /\ h.body # s.body ->
                   [Fresh EXCEPT !.body = s.body, !.prev = h.body, !.ingests = 1,
                                 !.rows1 = <<StepsOf(g)', EdgesOf(g)'>>]
              [] s.op = "ingest" /\ s.resp.status # 200 -> Fresh
              [] s.op = "load" /\ s.resp.status = 200 /\ h.ingests = 1 ->
                   [h EXCEPT !.load1 = s.resp]
              [] s.op = "load" /\ s.resp.status = 200 /\ h.ingests = 2 ->
                   [h EXCEPT !.load2 = s.resp]
              [] OTHER -> h
    ELSE seen[g]

\* per client, for its Load or Ingest: steps and edges, the rows of the graph
\* when the request arrived; calm, no ingestion of the graph was in flight
\* then; over, the bodies of the other ingestions of the graph in flight
\* before the request's last store operation
NoLoad == [steps |-> <<>>, edges |-> <<>>, calm |-> FALSE, over |-> {}]

HeldNext(c) ==
    IF req'[c].op \notin {"load", "ingest"} \/ ~Truthy(req'[c].body.graphId) THEN NoLoad
    ELSE IF Arrived(c)
    THEN [steps |-> StepsOf(req'[c].body.graphId.s),
          edges |-> EdgesOf(req'[c].body.graphId.s),
          calm |-> ~\E d \in Clients \ {c} : Writing(d, req'[c].body.graphId.s),
          over |-> {}]
    ELSE IF req[c].pc # "done"
    THEN [held[c] EXCEPT !.over =
            @ \cup {req'[d].body : d \in {e \in Clients \ {c} :
                        /\ req'[e].op = "ingest" /\ req'[e].pc # "done"
                        /\ req'[e].body.graphId = req[c].body.graphId}}]
    ELSE held[c]

\* sequential clients: all histories are kept
ObserveSeq ==
    /\ alone' = [c \in Clients |-> AloneNext(c)]
    /\ seen' = [g \in GraphIds |-> SeenNext(g)]
    /\ held' = [c \in Clients |-> HeldNext(c)]
    /\ UNCHANGED page

\* concurrent clients: only the overlap of ingestions is kept
ObserveConc ==
    /\ alone' = [c \in Clients |-> AloneNext(c)]
    /\ UNCHANGED <<seen, held, page>>

\* a writer and a reader: what a Load met is kept
ObserveLoad ==
    /\ held' = [c \in Clients |-> HeldNext(c)]
    /\ UNCHANGED <<alone, seen, page>>

---------------------------------------------------------------------------
(* Specifications.                                                         *)

\* after construction: an empty store, no request
Init ==
    /\ graphs = <<>>
    /\ steps = <<>>
    /\ edges = <<>>
    /\ clock = 0
    /\ nuuid = 0
    /\ req = [c \in Clients |-> Idle]
    /\ alone = [c \in Clients |-> TRUE]
    /\ seen = [g \in GraphIds |-> Fresh]
    /\ held = [c \in Clients |-> NoLoad]
    /\ page = [nodes |-> <<>>, edges |-> <<>>, drawerOpen |-> FALSE,
               drawerSteps |-> <<>>, selectedIndex |-> 0]

\* Spec: one producer/viewer sending one request after the other; graph g1
\* is created, graph g2 never is
SeqClient == "c1"

SeqStartBodies == {StartBody(JStr("g1"), JUndef)}

SeqIngestBodies ==
    {IngestBody(g, snap) : g \in {JUndef, JNull, JStr(""), JStr("g1"), JStr("g2")},
                           snap \in Snapshots}

SeqLoadQueries == {LoadQuery(g) : g \in {JNull, JStr(""), JStr("g1"), JStr("g2")}}

SeqStart == \E b \in SeqStartBodies : StartReceive(SeqClient, b) /\ ObserveSeq
SeqIngest == \E b \in SeqIngestBodies : IngestReceive(SeqClient, b) /\ ObserveSeq
SeqLoad == \E q \in SeqLoadQueries : LoadReceive(SeqClient, q) /\ ObserveSeq

Next ==
    \/ SeqStart
    \/ SeqIngest
    \/ SeqLoad
    \/ StartCreate(SeqClient) /\ ObserveSeq
    \/ IngestDeleteSteps(SeqClient) /\ ObserveSeq
    \/ IngestDeleteEdges(SeqClient) /\ ObserveSeq
    \/ IngestCreateStep(SeqClient) /\ ObserveSeq
    \/ IngestCreateEdge(SeqClient) /\ ObserveSeq
    \/ LoadFindSteps(SeqClient) /\ ObserveSeq
    \/ LoadFindEdges(SeqClient) /\ ObserveSeq
    \/ Reply(SeqClient) /\ ObserveSeq

Spec == Init /\ [][Next]_vars

\* SpecReg: the graph registry; one client creating graphs with and without
\* graphId and name, asking for the latest graph and the list, with
\* ingestions and loads in between
RegStartBodies ==
    {StartBody(g, n) : g \in {JUndef, JNull, JStr("g1"), JStr("g2")},
                       n \in {JUndef, JStr(""), JStr("run")}}

RegIngestBodies == {IngestBody(JStr("g1"), SnapA), IngestBody(JStr("g2"), SnapEmpty)}

RegLoadQueries == {LoadQuery(JStr("g1"))}

RegStart == \E b \in RegStartBodies : StartReceive(SeqClient, b) /\ ObserveConc
RegIngest == \E b \in RegIngestBodies : IngestReceive(SeqClient, b) /\ ObserveConc
RegLoad == \E q \in RegLoadQueries : LoadReceive(SeqClient, q) /\ ObserveConc

NextReg ==
    \/ RegStart
    \/ RegIngest
    \/ RegLoad
    \/ LastReceive(SeqClient) /\ ObserveConc
    \/ ListReceive(SeqClient) /\ ObserveConc
    \/ StartCreate(SeqClient) /\ ObserveConc
    \/ LastFindFirst(SeqClient) /\ ObserveConc
    \/ ListFindMany(SeqClient) /\ ObserveConc
    \/ IngestDeleteSteps(SeqClient) /\ ObserveConc
    \/ IngestDeleteEdges(SeqClient) /\ ObserveConc
    \/ IngestCreateStep(SeqClient) /\ ObserveConc
    \/ IngestCreateEdge(SeqClient) /\ ObserveConc
    \/ LoadFindSteps(SeqClient) /\ ObserveConc
    \/ LoadFindEdges(SeqClient) /\ ObserveConc
    \/ Reply(SeqClient) /\ ObserveConc

SpecReg == Init /\ [][NextReg]_vars

\* SpecConc: two clients whose requests interleave at the store operations:
\* c1 creates g1 and ingests into it; c2 creates g2, ingests into g2 and
\* into g1, and loads g1.
ConcStartBodies(c) ==
    IF c = "c1" THEN {StartBody(JStr("g1"), JUndef)} ELSE {StartBody(JStr("g2"), JUndef)}

ConcIngestBodies(c) ==
    IF c = "c1"
    THEN {IngestBody(JStr("g1"), snap) : snap \in {SnapA, SnapB}}
    ELSE {IngestBody(JStr("g2"), snap) : snap \in {SnapA, SnapB}}
         \cup {IngestBody(JStr("g1"), SnapA)}

ConcLoadQueries(c) == IF c = "c1" THEN {} ELSE {LoadQuery(JStr("g1"))}

ConcStart ==
    \E c \in Clients : \E b \in ConcStartBodies(c) : StartReceive(c, b) /\ ObserveConc
ConcIngest ==
    \E c \in Clients : \E b \in ConcIngestBodies(c) : IngestReceive(c, b) /\ ObserveConc
ConcLoad ==
    \E c \in Clients : \E q \in ConcLoadQueries(c) : LoadReceive(c, q) /\ ObserveConc

NextConc ==
    \/ ConcStart
    \/ ConcIngest
    \/ ConcLoad
    \/ \E c \in Clients : StartCreate(c) /\ ObserveConc
    \/ \E c \in Clients : IngestDeleteSteps(c) /\ ObserveConc
    \/ \E c \in Clients : IngestDeleteEdges(c) /\ ObserveConc
    \/ \E c \in Clients : IngestCreateStep(c) /\ ObserveConc
    \/ \E c \in Clients : IngestCreateEdge(c) /\ ObserveConc
    \/ \E c \in Clients : LoadFindSteps(c) /\ ObserveConc
    \/ \E c \in Clients : LoadFindEdges(c) /\ ObserveConc
    \/ \E c \in Clients : Reply(c) /\ ObserveConc

SpecConc == Init /\ [][NextConc]_vars

\* SpecLoad: a writer and a reader of one graph: c1 creates g1 and ingests
\* into it, c2 loads g1; their store operations interleave.
Writer == "c1"
Reader == "c2"

WriterIngestBodies == {IngestBody(JStr("g1"), snap) : snap \in {SnapA, SnapB, SnapC}}

ReaderLoadQueries == {LoadQuery(JStr("g1"))}

WriterStart ==
    \E b \in ConcStartBodies(Writer) : StartReceive(Writer, b) /\ ObserveLoad
WriterIngest == \E b \in WriterIngestBodies : IngestReceive(Writer, b) /\ ObserveLoad
ReaderLoad == \E q \in ReaderLoadQueries : LoadReceive(Reader, q) /\ ObserveLoad

NextLoad ==
    \/ WriterStart
    \/ WriterIngest
    \/ ReaderLoad
    \/ StartCreate(Writer) /\ ObserveLoad
    \/ IngestDeleteSteps(Writer) /\ ObserveLoad
    \/ IngestDeleteEdges(Writer) /\ ObserveLoad
    \/ IngestCreateStep(Writer) /\ ObserveLoad
    \/ IngestCreateEdge(Writer) /\ ObserveLoad
    \/ LoadFindSteps(Reader) /\ ObserveLoad
    \/ LoadFindEdges(Reader) /\ ObserveLoad
    \/ \E c \in Clients : Reply(c) /\ ObserveLoad

SpecLoad == Init /\ [][NextLoad]_vars

---------------------------------------------------------------------------
(* The viewer page (GraphPage and its Drawer), opened with ?graphId=g1: it *)
(* fetches graph/load on mount and every 3 s and projects each response.   *)
(* The positions layoutGraph assigns and the constant edge marker are left *)
(* out of a rendered node and edge.                                        *)

NodeWidth == 150
NodeHeight == 50
TerminalSize == 60

RECURSIVE JoinIndexes(_)
\* callsArr.map(c => c.stepIndex).join(", ")
JoinIndexes(callsArr) ==
    IF callsArr = <<>> THEN ""
    ELSE IF Len(callsArr) = 1 THEN ToString(callsArr[1].stepIndex)
    ELSE ToString(callsArr[1].stepIndex) \o ", " \o JoinIndexes(Tail(callsArr))

\* nodeName.toUpperCase(), on the two names it is applied to
ToUpperCase(nodeName) == IF nodeName = "start" THEN "START" ELSE "END"

\* mutant: only the first call of a node is attached and listed
ViewNodeFirstCall(nodeName, callsArr) ==
    [id |-> nodeName,
     data |-> [label |-> IF nodeName = "start" \/ nodeName = "end"
                         THEN ToUpperCase(nodeName)
                         ELSE "Node: " \o nodeName \o "\nstep: "
                                  \o ToString(callsArr[1].stepIndex),
               allSteps |-> <<callsArr[1]>>],
     style |-> IF nodeName = "start" \/ nodeName = "end"
               THEN [width |-> TerminalSize, height |-> TerminalSize]
               ELSE [width |-> NodeWidth, height |-> NodeHeight]]

\* one element of tmpNodes: the node of one entry of data.nodes
ViewNode(nodeName, callsArr) ==
    [id |-> nodeName,
     data |-> [label |-> IF nodeName = "start" \/ nodeName = "end"
                         THEN ToUpperCase(nodeName)
                         ELSE "Node: " \o nodeName \o "\nstep: " \o JoinIndexes(callsArr),
               allSteps |-> callsArr],
     style |-> IF nodeName = "start" \/ nodeName = "end"
               THEN [width |-> TerminalSize, height |-> TerminalSize]
               ELSE [width |-> NodeWidth, height |-> NodeHeight]]

\* one element of tmpEdges: the edge of entry i (from 0) of data.edges
ViewEdge(ed, i) ==
    [id |-> "edge-" \o ToString(i), source |-> ed.source, target |-> ed.target,
     label |-> IF Truthy(ed.conditionKey)
               THEN JStr("condition: " \o ed.conditionKey.s) ELSE JUndef,
     style |-> [stroke |-> IF ed.conditionKey = JStr("end") THEN "red" ELSE "black",
                strokeDasharray |-> IF ed.conditionKey = JStr("end")
                                    THEN JStr("4 2") ELSE JUndef]]

\* Drawer: const currentStep = allSteps[selectedIndex] is undefined and
\* currentStep.input throws while the page renders; the page is gone
RenderThrows ==
    /\ page.drawerOpen /\ page.drawerSteps # <<>>
    /\ page.selectedIndex >= Len(page.drawerSteps)

\* Drawer renders its Close button and its select
DrawerShown == page.drawerOpen /\ page.drawerSteps # <<>> /\ ~RenderThrows

\* fetchGraphData, after the response has arrived: a response that is not
\* ok empties the view; data.nodes of a Load response is always an object
FetchGraphData(c) ==
    /\ req[c].op = "load" /\ req[c].pc = "done"
    /\ LET res == req[c].resp
           data == res.json
       IN page' =
            IF RenderThrows THEN page
            ELSE IF res.status # 200 THEN [page EXCEPT !.nodes = <<>>, !.edges = <<>>]
            ELSE [page EXCEPT
                    !.nodes = [k \in 1..Len(data.nodes) |->
                                 ViewNode(data.nodes[k][1], data.nodes[k][2])],
                    !.edges = [k \in 1..Len(data.edges) |-> ViewEdge(data.edges[k], k - 1)]]
    /\ req' = [req EXCEPT ![c] = Idle]
    /\ UNCHANGED <<graphs, steps, edges, clock, nuuid, alone, seen, held>>

\* onNodeClick: the drawer opens on the clicked node's steps
OnNodeClick(k) ==
    /\ ~RenderThrows
    /\ k \in 1..Len(page.nodes)
    /\ page' = [page EXCEPT !.drawerSteps = page.nodes[k].data.allSteps,
                             !.drawerOpen = TRUE]
    /\ UNCHANGED <<graphs, steps, edges, clock, nuuid, req, alone, seen, held>>

\* Drawer's handleSelectChange: one of the options (value idx) is chosen
HandleSelectChange(idx) ==
    /\ DrawerShown
    /\ idx \in 0..Len(page.drawerSteps) - 1
    /\ page' = [page EXCEPT !.selectedIndex = idx]
    /\ UNCHANGED <<graphs, steps, edges, clock, nuuid, req, alone, seen, held>>

\* Drawer's Close button: onClose={() => setDrawerOpen(false)}
OnClose ==
    /\ DrawerShown
    /\ page' = [page EXCEPT !.drawerOpen = FALSE]
    /\ UNCHANGED <<graphs, steps, edges, clock, nuuid, req, alone, seen, held>>

\* the handlers leave the page and the histories alone
ObserveView == UNCHANGED <<alone, seen, held, page>>

\* SpecView: c1 creates g1 and ingests into it while the viewer page (client
\* c2) polls graph/load for g1 and the user clicks nodes, selects steps and
\* closes the drawer.
ViewIngestBodies == {IngestBody(JStr("g1"), snap) : snap \in {SnapB, SnapG}}

ViewStart == \E b \in ConcStartBodies(Writer) : StartReceive(Writer, b) /\ ObserveView
ViewIngest == \E b \in ViewIngestBodies : IngestReceive(Writer, b) /\ ObserveView
ViewPoll ==
    \E q \in ReaderLoadQueries : ~RenderThrows /\ LoadReceive(Reader, q) /\ ObserveView

NextView ==
    \/ ViewStart
    \/ ViewIngest
    \/ ViewPoll
    \/ StartCreate(Writer) /\ ObserveView
    \/ IngestDeleteSteps(Writer) /\ ObserveView
    \/ IngestDeleteEdges(Writer) /\ ObserveView
    \/ IngestCreateStep(Writer) /\ ObserveView
    \/ IngestCreateEdge(Writer) /\ ObserveView
    \/ Reply(Writer) /\ ObserveView
    \/ LoadFindSteps(Reader) /\ ObserveView
    \/ LoadFindEdges(Reader) /\ ObserveView
    \/ FetchGraphData(Reader)
    \/ \E k \in 1..Len(page.nodes) : OnNodeClick(k)
    \/ \E idx \in 0..Len(page.drawerSteps) - 1 : HandleSelectChange(idx)
    \/ OnClose

SpecView == Init /\ [][NextView]_vars

---------------------------------------------------------------------------
(* Properties of ingestion and load under Spec (one request at a time).    *)

\* what identifies the stored rows and the submitted entries
StepKeys(rows) == [k \in 1..Len(rows) |-> <<rows[k].nodeName, rows[k].stepIndex>>]
CallKeys(body) ==
    [k \in 1..Len(Calls(body)) |->
        <<Calls(body)[k].nodeName, Calls(body)[k].call.stepIndex.n>>]
EdgeKeys(rows) == [k \in 1..Len(rows) |-> <<rows[k].sourceNode, rows[k].targetNode>>]
EntryKeys(body) ==
    [k \in 1..Len(EdgeList(body)) |->
        <<EdgeList(body)[k].source.s, EdgeList(body)[k].target.s>>]

\* the node names a request submitted
SubmittedNames(body) ==
    LET m == OrElse(body.nodes, JObj(<<>>)).m IN {m[k][1] : k \in 1..Len(m)}

\* a Load response: its node names, its (nodeName, stepIndex) pairs, its edges
LoadedNames(json) == {json.nodes[k][1] : k \in 1..Len(json.nodes)}
LoadedSteps(json) ==
    UNION { {<<json.nodes[k][1], json.nodes[k][2][n].stepIndex>> :
                n \in 1..Len(json.nodes[k][2])} : k \in 1..Len(json.nodes) }
LoadedEdges(json) == {<<json.edges[k].source, json.edges[k].target>> : k \in 1..Len(json.edges)}

Range(f) == {f[k] : k \in DOMAIN f}

\* client c has ingested into graph g with success
Ingested(c, g) ==
    /\ req[c].op = "ingest" /\ req[c].pc = "done" /\ req[c].resp.status = 200
    /\ req[c].body.graphId.s = g

\* client c has loaded graph g, which exists and whose last ingestion
\* succeeded with snapshot seen[g].body
Loaded(c, g) ==
    /\ req[c].op = "load" /\ req[c].pc = "done" /\ req[c].resp.status = 200
    /\ req[c].body.graphId.s = g
    /\ GraphExists(g)
    /\ seen[g].body # JUndef

\* C1: once a second snapshot has been ingested for an existing graph, the
\* stored Step and Edge rows of the graph are exactly those of that snapshot,
\* and a Load returns no node name, step or edge that the snapshot lacks.
C1_Supersedes ==
    \A c \in Clients, g \in GraphIds :
        /\ (Ingested(c, g) /\ GraphExists(g)) =>
              /\ StepKeys(StepsOf(g)) = CallKeys(req[c].body)
              /\ EdgeKeys(EdgesOf(g)) = EntryKeys(req[c].body)
        /\ Loaded(c, g) =>
              /\ LoadedNames(req[c].resp.json) \subseteq SubmittedNames(seen[g].body)
              /\ LoadedSteps(req[c].resp.json) \subseteq Range(CallKeys(seen[g].body))
              /\ LoadedEdges(req[c].resp.json) \subseteq Range(EntryKeys(seen[g].body))

\* a Load after a second snapshot that lacks a node and an edge of the first
C1_Witness ==
    \E c \in Clients, g \in GraphIds :
        /\ Loaded(c, g)
        /\ seen[g].prev # JUndef
        /\ ~(SubmittedNames(seen[g].prev) \subseteq SubmittedNames(seen[g].body))
        /\ ~(Range(EntryKeys(seen[g].prev)) \subseteq Range(EntryKeys(seen[g].body)))
        /\ req[c].resp.json.nodes # <<>>

Ascending(calls) ==
    \A a, b \in 1..Len(calls) : a < b => calls[a].stepIndex <= calls[b].stepIndex

\* C2: a Load right after an Ingest into an existing graph returns a nodes
\* mapping whose keys are exactly the submitted node names, each call list
\* in ascending stepIndex order, whatever the order of submission.
C2_KeysAndSorted ==
    \A c \in Clients, g \in GraphIds :
        Loaded(c, g) =>
            LET json == req[c].resp.json
            IN /\ LoadedNames(json) = SubmittedNames(seen[g].body)
               /\ \A k \in 1..Len(json.nodes) : Ascending(json.nodes[k][2])

\* the payloads a Load returns, in the order of its nodes and calls
RECURSIVE LoadedCalls(_)
LoadedCalls(nodes) ==
    IF nodes = <<>> THEN <<>> ELSE nodes[1][2] \o LoadedCalls(Tail(nodes))

\* a missing payload is to come back as an empty object, any other unchanged
Expected(payload) == IF payload = JUndef THEN JObj(<<>>) ELSE payload

\* C3: the input and output a Load returns for a step equal the submitted
\* ones, for every payload value; a missing payload comes back as {}.
C3_PayloadRoundTrip ==
    \A c \in Clients, g \in GraphIds :
        Loaded(c, g) =>
            LET got == LoadedCalls(req[c].resp.json.nodes)
                sent == Calls(seen[g].body)
            IN /\ Len(got) = Len(sent)
               /\ \A k \in 1..Len(got) :
                     /\ got[k].input = Expected(sent[k].call.input)
                     /\ got[k].output = Expected(sent[k].call.output)

\* C4: Ingest, Load, the same Ingest again, Load: the two Load responses
\* are identical and the graph holds as many Step and Edge rows after the
\* second Ingest as after the first.
C4_Idempotent ==
    \A g \in GraphIds :
        seen[g].ingests = 2 =>
            /\ (seen[g].load1.status = 200 /\ seen[g].load2.status = 200) =>
                  seen[g].load1 = seen[g].load2
            /\ (~\E c \in Clients : Writing(c, g)) =>
                  /\ Len(StepsOf(g)) = Len(seen[g].rows1[1])
                  /\ Len(EdgesOf(g)) = Len(seen[g].rows1[2])

\* both Loads done around a repeated Ingest of a snapshot with steps and edges
C4_Witness ==
    \E g \in GraphIds :
        /\ seen[g].ingests = 2
        /\ seen[g].load1.status = 200 /\ seen[g].load2.status = 200
        /\ seen[g].load2.json.nodes # <<>> /\ seen[g].load2.json.edges # <<>>
        /\ ~\E c \in Clients : Writing(c, g)

\* client c's ingestion into a graph without Graph row has returned
IngestedNoGraph(c) ==
    /\ req[c].op = "ingest" /\ req[c].pc = "done"
    /\ Truthy(req[c].body.graphId)
    /\ \A k \in 1..Len(graphs) : graphs[k].id # req[c].body.graphId.s

\* C6 as claimed: every Ingest whose graphId has no Graph row fails with an
\* error response and leaves no Step or Edge row for it, for every snapshot.
C6_AlwaysFails ==
    \A c \in Clients :
        IngestedNoGraph(c) =>
            /\ req[c].resp.status = 500
            /\ StepsOf(req[c].body.graphId.s) = <<>>
            /\ EdgesOf(req[c].body.graphId.s) = <<>>

\* C6 as amended: an Ingest whose graphId has no Graph row leaves no Step or
\* Edge row for it; it fails exactly when the snapshot holds a step or an
\* edge, and succeeds when it holds none.
C6_FailsUnlessEmpty ==
    \A c \in Clients :
        IngestedNoGraph(c) =>
            /\ StepsOf(req[c].body.graphId.s) = <<>>
            /\ EdgesOf(req[c].body.graphId.s) = <<>>
            /\ req[c].resp.status =
                  IF Calls(req[c].body) = <<>> /\ EdgeList(req[c].body) = <<>>
                  THEN 200 ELSE 500

\* a snapshot with steps was refused for a graph that does not exist
C6_Witness ==
    \E c \in Clients :
        /\ IngestedNoGraph(c)
        /\ Calls(req[c].body) # <<>>
        /\ req[c].resp.status = 500

\* C7: an Ingest without graphId (absent, null or empty) is answered with a
\* failure at once, and no step of it changes a Graph, Step or Edge row.
C7_MissingGraphId ==
    [][\A c \in Clients :
          (req'[c] # req[c] /\ req'[c].op = "ingest" /\ ~Truthy(req'[c].body.graphId)) =>
              /\ req'[c].pc = "done" /\ req'[c].resp.status = 500
              /\ graphs' = graphs /\ steps' = steps /\ edges' = edges]_vars

\* an Ingest without graphId was refused while the store holds rows
C7_Witness ==
    \E c \in Clients :
        /\ req[c].op = "ingest" /\ req[c].pc = "done"
        /\ req[c].body.graphId = JUndef
        /\ req[c].resp.status = 500
        /\ steps # <<>> /\ edges # <<>>

\* the conditionKey a Load is to return for an edge entry: the supplied
\* string, or no field when none was supplied
ExpectedKey(ed) == IF ed.conditionKey.t = "string" THEN ed.conditionKey ELSE JUndef

\* C9: a loaded edge carries a conditionKey exactly when one was supplied at
\* ingestion, with the same value (the empty string included), and no
\* conditionKey field otherwise.
C9_ConditionKeyLossless ==
    \A c \in Clients, g \in GraphIds :
        Loaded(c, g) =>
            LET got == req[c].resp.json.edges
                sent == EdgeList(seen[g].body)
            IN /\ Len(got) = Len(sent)
               /\ \A k \in 1..Len(got) : got[k].conditionKey = ExpectedKey(sent[k])

---------------------------------------------------------------------------
(* Properties of the graph registry under SpecReg.                         *)

\* the identifiers the callers of graph/start supply
SuppliedIds == {"g1", "g2"}

\* C5: a CreateGraph without graphId fails with an error response and
\* inserts no Graph row; every Graph row carries an id a caller supplied.
C5_NoIdRejected ==
    /\ \A c \in Clients :
          (req[c].op = "start" /\ req[c].pc = "done" /\ req[c].body.graphId = JUndef) =>
              req[c].resp.status = 500
    /\ \A k \in 1..Len(graphs) : graphs[k].id \in SuppliedIds

\* the Graph row created last
Latest == graphs[Len(graphs)]

\* C8: GetLatestGraph returns the id of the most recently created Graph, the
\* first element of ListGraphs (ordered by creation time, descending), and a
\* null graphId with success when there is no Graph.
C8_LatestIsLastCreated ==
    \A c \in Clients :
        /\ (req[c].op = "last" /\ req[c].pc = "done") =>
              /\ req[c].resp.status = 200
              /\ req[c].resp.json.graphId =
                    IF graphs = <<>> THEN JNull ELSE JStr(Latest.id)
        /\ (req[c].op = "list" /\ req[c].pc = "done") =>
              /\ req[c].resp.status = 200
              /\ Len(req[c].resp.json) = Len(graphs)
              /\ \A k \in 1..Len(graphs) - 1 :
                    req[c].resp.json[k].createdAt >= req[c].resp.json[k + 1].createdAt
              /\ graphs # <<>> => req[c].resp.json[1].id = Latest.id

---------------------------------------------------------------------------
(* Properties of concurrent ingestions under SpecConc.                     *)

\* the rows a snapshot amounts to
SnapshotSteps(body) ==
    [k \in 1..Len(Calls(body)) |->
        StepRow(body.graphId.s, Calls(body)[k].nodeName, Calls(body)[k].call)]
SnapshotEdges(body) ==
    [k \in 1..Len(EdgeList(body)) |-> EdgeRow(body.graphId.s, EdgeList(body)[k])]

\* C10: no step of an Ingest for graph g changes a Graph row or a Step or
\* Edge row of another graph, however the ingestions interleave; and an
\* Ingest that no ingestion of the same graph overlapped leaves its graph
\* holding exactly its own snapshot.
C10_NoInterference ==
    [][\A c \in Clients, g \in GraphIds :
          (/\ req'[c] # req[c] /\ req'[c].op = "ingest"
           /\ Truthy(req'[c].body.graphId) /\ req'[c].body.graphId.s = g) =>
              /\ graphs' = graphs
              /\ \A h \in GraphIds \ {g} :
                    StepsOf(h)' = StepsOf(h) /\ EdgesOf(h)' = EdgesOf(h)
              /\ (Completed(c) /\ req'[c].resp.status = 200 /\ alone[c]) =>
                    /\ StepsOf(g)' = SnapshotSteps(req'[c].body)
                    /\ EdgesOf(g)' = SnapshotEdges(req'[c].body)]_vars

\* two ingestions for different graphs have both succeeded, and their Step
\* rows lie interleaved in the table
C10_Witness ==
    /\ Ingested("c1", "g1") /\ Ingested("c2", "g2")
    /\ alone["c1"] /\ alone["c2"]
    /\ \E a, b, d \in 1..Len(steps) :
          /\ a < b /\ b < d
          /\ steps[a].graphId = "g1" /\ steps[b].graphId = "g2" /\ steps[d].graphId = "g1"

---------------------------------------------------------------------------
(* Properties of a Load that meets an ingestion, under SpecLoad.           *)

\* the Load response for the given Step and Edge rows
View(stepRows, edgeRows) ==
    [nodes |-> GroupSteps(stepRows, <<>>), edges |-> EdgesOut(edgeRows)]

Prefixes(rows) == {SubSeq(rows, 1, n) : n \in 0..Len(rows)}

\* client c's Load of graph g has returned; no ingestion of g was in flight
\* when it arrived
LoadedCalm(c, g) ==
    /\ req[c].op = "load" /\ req[c].pc = "done" /\ req[c].resp.status = 200
    /\ req[c].body.graphId.s = g
    /\ held[c].calm

\* graph g held exactly the snapshot of body b when client c's Load arrived
HeldSnapshot(c, b) ==
    /\ held[c].steps = SnapshotSteps(b)
    /\ held[c].edges = SnapshotEdges(b)

\* C11: Ingest is not atomic with respect to Load.  A Load of g that no
\* ingestion of g overlaps returns what g held when it arrived; a Load that
\* an ingestion of g overlaps returns, for the steps and for the edges
\* separately, what g held or any prefix (empty and full included) of the
\* ingested snapshot, so its result may equal neither snapshot.
C11_LoadSeesIngestSteps ==
    \A c \in Clients, g \in GraphIds :
        LoadedCalm(c, g) =>
            LET json == req[c].resp.json
                h == held[c]
            IN /\ h.over = {} => json = View(h.steps, h.edges)
               /\ \E r \in {h.steps} \cup UNION {Prefixes(SnapshotSteps(b)) : b \in h.over} :
                     json.nodes = GroupSteps(r, <<>>)
               /\ \E r \in {h.edges} \cup UNION {Prefixes(SnapshotEdges(b)) : b \in h.over} :
                     json.edges = EdgesOut(r)

\* graph g held a non-empty snapshot S1, Ingest(g, S2) ran during the Load,
\* and the Load returned neither the view of S1 nor the view of S2
C11_Witness ==
    \E c \in Clients, g \in GraphIds :
        /\ LoadedCalm(c, g)
        /\ held[c].steps # <<>> /\ held[c].edges # <<>>
        /\ \E b1, b2 \in WriterIngestBodies :
              /\ HeldSnapshot(c, b1)
              /\ held[c].over = {b2}
              /\ req[c].resp.json # View(SnapshotSteps(b1), SnapshotEdges(b1))
              /\ req[c].resp.json # View(SnapshotSteps(b2), SnapshotEdges(b2))

---------------------------------------------------------------------------
(* Properties of an Ingest that fails, under Spec.                         *)

\* graph g holds exactly the rows of the snapshot of body b, all of them
HoldsSnapshot(g, b) ==
    /\ \A k \in 1..Len(Calls(b)) : StepValid(Calls(b)[k].call)
    /\ \A k \in 1..Len(EdgeList(b)) : EdgeValid(EdgeList(b)[k])
    /\ StepsOf(g) = SnapshotSteps(b)
    /\ EdgesOf(g) = SnapshotEdges(b)

\* client c's Ingest for graph g has returned, with success or with failure,
\* and no other ingestion of g ran during it
IngestReturned(c, g) ==
    /\ req[c].op = "ingest" /\ req[c].pc = "done"
    /\ Truthy(req[c].body.graphId) /\ req[c].body.graphId.s = g
    /\ held[c].calm /\ held[c].over = {}

\* C12: after an Ingest for graph g has returned, with success or with a
\* failure response, the Step and Edge rows of g are either the complete set
\* held before the call or the complete new snapshot, never an empty or
\* partially inserted set.
C12_AllOrNothing ==
    \A c \in Clients, g \in GraphIds :
        IngestReturned(c, g) =>
            \/ StepsOf(g) = held[c].steps /\ EdgesOf(g) = held[c].edges
            \/ HoldsSnapshot(g, req[c].body)

---------------------------------------------------------------------------
(* Properties of two ingestions of one graph, under SpecConc.              *)

Suffixes(rows) == {SubSeq(rows, n, Len(rows)) : n \in 1..Len(rows) + 1}

RECURSIVE IsMerge(_, _, _)
\* rows is an interleaving of a and b that keeps the order of each
IsMerge(rows, a, b) ==
    IF rows = <<>> THEN a = <<>> /\ b = <<>>
    ELSE \/ a # <<>> /\ rows[1] = a[1] /\ IsMerge(Tail(rows), Tail(a), b)
         \/ b # <<>> /\ rows[1] = b[1] /\ IsMerge(Tail(rows), a, Tail(b))

\* rows holds all the rows of one of a and b and the last rows of the other
MergedTail(rows, a, b) ==
    \/ \E sb \in Suffixes(b) : IsMerge(rows, a, sb)
    \/ \E sa \in Suffixes(a) : IsMerge(rows, sa, b)

\* both clients' ingestions into graph g have returned with success
BothIngested(g) == Ingested("c1", g) /\ Ingested("c2", g)

\* C13: two concurrent Ingest calls for one graphId are not coherent.  When
\* both have returned with success the graph holds, of steps and of edges
\* separately, all the rows of one snapshot interleaved with the last rows
\* (none, some or all) of the other, so the stored rows may equal neither
\* snapshot: rows of both, or the same rows twice.
C13_RowsOfBoth ==
    \A g \in GraphIds :
        BothIngested(g) =>
            /\ MergedTail(StepsOf(g), SnapshotSteps(req["c1"].body),
                           SnapshotSteps(req["c2"].body))
            /\ MergedTail(EdgesOf(g), SnapshotEdges(req["c1"].body),
                           SnapshotEdges(req["c2"].body))

\* two ingestions of different snapshots into g have both returned with
\* success and g holds Step rows of both
C13_Witness ==
    \E g \in GraphIds :
        /\ BothIngested(g)
        /\ req["c1"].body # req["c2"].body
        /\ StepsOf(g) # SnapshotSteps(req["c1"].body)
        /\ StepsOf(g) # SnapshotSteps(req["c2"].body)
        /\ \E a, b \in 1..Len(StepsOf(g)) :
              /\ StepsOf(g)[a] \in Range(SnapshotSteps(req["c1"].body))
              /\ StepsOf(g)[b] \in Range(SnapshotSteps(req["c2"].body))

---------------------------------------------------------------------------
(* Properties of the viewer page, under SpecView.                          *)

\* part occurs in text
Contains(text, part) ==
    \E a \in 1..Len(text) - Len(part) + 1 : SubSeq(text, a, a + Len(part) - 1) = part

\* the label names every stepIndex of the calls
ListsIndexes(label, calls) ==
    \A k \in 1..Len(calls) : Contains(label, ToString(calls[k].stepIndex))

\* the step is the page taking in a Load response
Fetched ==
    /\ req[Reader].op = "load" /\ req[Reader].pc = "done"
    /\ req[Reader].resp.status = 200
    /\ req'[Reader] = Idle
    /\ ~RenderThrows

\* the nodes of the page after the step are one per entry of the response's
\* nodes, in its order, each with the entry's name and its whole call list
OneNodePerName ==
    LET data == req[Reader].resp.json
    IN /\ Len(page'.nodes) = Len(data.nodes)
       /\ \A a, b \in 1..Len(page'.nodes) : a # b => page'.nodes[a].id # page'.nodes[b].id
       /\ \A k \in 1..Len(data.nodes) :
             /\ page'.nodes[k].id = data.nodes[k][1]
             /\ page'.nodes[k].data.allSteps = data.nodes[k][2]

\* a step that changes the drawer's steps opens it on the whole step list of
\* one of the page's nodes
ClickExposes ==
    page'.drawerSteps # page.drawerSteps =>
        /\ page'.drawerOpen
        /\ \E k \in 1..Len(page.nodes) : page'.drawerSteps = page.nodes[k].data.allSteps

\* C14 as claimed: the projection of a Load result renders one node per
\* nodeName; for every node name, "start" and "end" included, the label
\* lists all the node's stepIndex values and the attached step list, which a
\* click exposes, is the node's full call history in Load order.
C14_EveryLabelLists ==
    [][/\ Fetched =>
            /\ OneNodePerName
            /\ \A k \in 1..Len(page'.nodes) :
                  ListsIndexes(page'.nodes[k].data.label, page'.nodes[k].data.allSteps)
       /\ ClickExposes]_vars

\* C14 as amended: one node per nodeName, each with its full call history in
\* Load order, which a click exposes; the label lists all the stepIndex
\* values for every name but "start" and "end", whose label is the name in
\* upper case and lists no stepIndex.
C14_LabelListsUnlessTerminal ==
    [][/\ Fetched =>
            /\ OneNodePerName
            /\ \A k \in 1..Len(page'.nodes) :
                  LET n == page'.nodes[k]
                  IN /\ n.id = "start" => n.data.label = "START"
                     /\ n.id = "end" => n.data.label = "END"
                     /\ n.id \notin {"start", "end"} =>
                           ListsIndexes(n.data.label, n.data.allSteps)
       /\ ClickExposes]_vars

\* the page shows "start" with two steps under the label START beside "end",
\* and the drawer is open on the two steps of "start"
C14_Witness ==
    /\ \E a, b \in 1..Len(page.nodes) :
          /\ page.nodes[a].id = "start" /\ page.nodes[a].data.label = "START"
          /\ Len(page.nodes[a].data.allSteps) = 2
          /\ page.drawerSteps = page.nodes[a].data.allSteps
          /\ page.nodes[b].id = "end"
    /\ page.drawerOpen

\* C15: whenever the drawer is open with a non-empty step list, the selected
\* index is a valid index into that list, so the displayed step is defined.
C15_SelectedIndexValid ==
    (page.drawerOpen /\ page.drawerSteps # <<>>) =>
        (0 <= page.selectedIndex /\ page.selectedIndex < Len(page.drawerSteps))

====
